---- MODULE Spec2Model ----
(***************************************************************************)
(* The memory substrate of stable-structures: a growable paged byte store, *)
(* the restricted view of a page range of it (RestrictedMemory), the       *)
(* safe-grow write path (safe_write, write) and copy.                      *)
(*                                                                         *)
(* One backing store is shared by every restricted view.  The backing      *)
(* store is kept sparsely: `inner` is its page count and `mem` holds the   *)
(* bytes that are not zero; every other byte below inner * WASM_PAGE_SIZE  *)
(* is zero.  All quantities stay far below 2^64, so the checked_add and    *)
(* checked_mul of safe_write never fail within the bounds.                 *)
(*                                                                         *)
(* Specifications:                                                         *)
(*   Spec          grow, safe_write, write and copy through every store    *)
(*   CopySpec      copy over a store that holds bytes                      *)
(*   ViewSpec      read and write through the backing store and its views  *)
(*   IntSpec       write_u32 / write_u64 followed by read_u32 / read_u64   *)
(*   StorableSpec  to_bytes and from_bytes of the built-in Storable types  *)
(*   NewSpec       RestrictedMemory::new at the limit of the address space *)
(***************************************************************************)
EXTENDS Integers, Sequences, FiniteSets, TLC

\* lib.rs:42
WASM_PAGE_SIZE == 65536

\* ---- bounds of the model ------------------------------------------------
\* regions are the page ranges [s, e) with 0 <= s < e <= MaxEnd
MaxEnd == 3
\* the host refuses to grow the backing store above MaxPages pages
MaxPages == 3
\* grow is called with 0..MaxDelta pages
MaxDelta == 2
\* byte offsets lie in the pages 0..MaxOffPage, at the first or last byte
MaxOffPage == 1
\* byte sequences have 0..MaxLen bytes
MaxLen == 1
\* copy: addresses 0..MaxCopyAddr, 0..MaxCount chunks of 1..MaxChunk bytes
MaxCopyAddr == 1
MaxCount == 1
MaxChunk == 1
\* calls made in one process lifetime
MaxCalls == 2
\* copy under overlap: the first MaxFill bytes of a page are filled, the
\* ranges start at 0..MaxCopyOff and have 0..MaxCopyCount chunks of
\* 1..MaxCopyChunk bytes
MaxFill == 5
MaxCopyOff == 2
MaxCopyCount == 2
MaxCopyChunk == 2
\* integers: the values d * 256^k + e with e in 0..MaxLow, and a few others
MaxLow == 1
\* encodable values: byte vectors of 0..MaxVecLen bytes, strings of
\* 0..MaxStrLen characters
MaxVecLen == 2
MaxStrLen == 2
\* u64::MAX with the width of an address scaled from 64 to 30 bits (TLC's
\* integers end at 2^31 - 1); the page size is not scaled
U64_MAX == 1073741823
\* page ranges are made with ends within MaxNear of the limit of new, and of 0
MaxNear == 2

VARIABLES inner, mem, aborted, calls, last

vars == <<inner, mem, aborted, calls, last>>

\* ---- helpers ------------------------------------------------------------
Min(a, b) == IF a < b THEN a ELSE b

\* the byte values written: zero and one that is not zero
Byte == {0, 1}

RECURSIVE SeqsUpTo(_)
SeqsUpTo(n) ==
    IF n = 0 THEN {<<>>}
    ELSE LET shorter == SeqsUpTo(n - 1)
         IN shorter \cup {Append(s, x) : s \in {t \in shorter : Len(t) = n - 1}, x \in Byte}

ByteSeqs == SeqsUpTo(MaxLen)

Offsets == {p * WASM_PAGE_SIZE + w : p \in 0..MaxOffPage, w \in {0, WASM_PAGE_SIZE - 1}}

\* ---- stores -------------------------------------------------------------
\* the backing store (DefaultMemoryImpl)
Backing == [kind |-> "vec", start |-> 0, end |-> 0]

\* RestrictedMemory { page_range: start..end, memory: the backing store }
RestrictedMemory(s, e) == [kind |-> "restricted", start |-> s, end |-> e]

\* the views RestrictedMemory::new(backing, s..e) makes; every range of the
\* bounds passes its assertion (end < u64::MAX / WASM_PAGE_SIZE = 2^48 - 1)
Regions == {RestrictedMemory(pr[1], pr[2]) :
               pr \in {q \in (0..MaxEnd) \X (0..MaxEnd) : q[1] < q[2]}}

Stores == {Backing} \cup Regions

\* ---- the backing store's bytes -----------------------------------------
\* byte a of the backing Vec<u8>
ByteAt(m, a) == IF a \in DOMAIN m THEN m[a] ELSE 0

\* the Vec<u8> with bytes[1..n] stored at off..off+n-1
StoreBytes(m, off, bytes) ==
    LET W == {off + i - 1 : i \in 1..Len(bytes)}
        val(a) == IF a \in W THEN bytes[a - off + 1] ELSE m[a]
        D == {a \in (DOMAIN m) \cup W : val(a) # 0}
    IN [a \in D |-> val(a)]

\* ---- the backing implementation of Memory ------------------------------
VectorMemory_size(b) == b

\* grant: whether the host is willing to give the pages asked for
VectorMemory_grow(b, pages, grant) ==
    IF pages = 0 \/ (grant /\ b + pages <= MaxPages)
    THEN [ret |-> b, size |-> b + pages]
    ELSE [ret |-> -1, size |-> b]

VectorMemory_read(b, m, offset, n) ==
    IF offset + n > b * WASM_PAGE_SIZE
    THEN [panic |-> TRUE, bytes |-> <<>>]
    ELSE [panic |-> FALSE, bytes |-> [i \in 1..n |-> ByteAt(m, offset + i - 1)]]

VectorMemory_write(b, m, offset, src) ==
    IF offset + Len(src) > b * WASM_PAGE_SIZE
    THEN [panic |-> TRUE, mem |-> m]
    ELSE [panic |-> FALSE, mem |-> StoreBytes(m, offset, src)]

\* ---- impl Memory for RestrictedMemory ----------------------------------
\* mutant: the capped branch forgets to subtract the start of the range
RestrictedMemory_size_unshifted(r, b) ==
    LET base_size == VectorMemory_size(b)
    IN IF base_size < r.start THEN 0
       ELSE IF base_size > r.end THEN r.end
       ELSE base_size - r.start

\* mutant: an inner store beyond the end of the range is taken for one that
\* does not back the range
RestrictedMemory_size_outside_zero(r, b) ==
    LET base_size == VectorMemory_size(b)
    IN IF base_size < r.start \/ base_size > r.end THEN 0
       ELSE base_size - r.start

RestrictedMemory_size(r, b) ==
    LET base_size == VectorMemory_size(b)
    IN IF base_size < r.start THEN 0
       ELSE IF base_size > r.end THEN r.end - r.start
       ELSE base_size - r.start

RestrictedMemory_grow(r, b, delta, grant) ==
    LET base_size == VectorMemory_size(b)
    IN IF base_size < r.start
       THEN LET g == VectorMemory_grow(b, r.start - base_size + delta, grant)
            IN [ret |-> Min(g.ret, 0), size |-> g.size]
       ELSE IF base_size >= r.end
       THEN [ret |-> IF delta = 0 THEN r.end - r.start ELSE -1, size |-> b]
       ELSE LET pages_left == r.end - base_size
            IN IF pages_left < delta
               THEN [ret |-> -1, size |-> b]
               ELSE LET g == VectorMemory_grow(b, delta, grant)
                    IN [ret |-> IF g.ret < 0 THEN g.ret ELSE g.ret - r.start,
                        size |-> g.size]

\* mutant: the offset is not shifted by the start of the range
RestrictedMemory_read_unshifted(r, b, m, offset, n) ==
    VectorMemory_read(b, m, offset, n)

RestrictedMemory_read(r, b, m, offset, n) ==
    VectorMemory_read(b, m, r.start * WASM_PAGE_SIZE + offset, n)

\* mutant: the offset is not shifted by the start of the range
RestrictedMemory_write_unshifted(r, b, m, offset, src) ==
    VectorMemory_write(b, m, offset, src)

RestrictedMemory_write(r, b, m, offset, src) ==
    VectorMemory_write(b, m, r.start * WASM_PAGE_SIZE + offset, src)

\* ---- trait Memory: dispatch on the store -------------------------------
Memory_size(S, b) ==
    IF S.kind = "vec" THEN VectorMemory_size(b) ELSE RestrictedMemory_size(S, b)

Memory_grow(S, b, pages, grant) ==
    IF S.kind = "vec" THEN VectorMemory_grow(b, pages, grant)
    ELSE RestrictedMemory_grow(S, b, pages, grant)

Memory_read(S, b, m, offset, n) ==
    IF S.kind = "vec" THEN VectorMemory_read(b, m, offset, n)
    ELSE RestrictedMemory_read(S, b, m, offset, n)

Memory_write(S, b, m, offset, src) ==
    IF S.kind = "vec" THEN VectorMemory_write(b, m, offset, src)
    ELSE RestrictedMemory_write(S, b, m, offset, src)

\* ---- safe_write, write, copy -------------------------------------------
\* mutant: the pages to grow by are rounded down
safe_write_rounds_down(S, b, m, offset, bytes, grant) ==
    LET last_byte == offset + Len(bytes)
        size_pages == Memory_size(S, b)
        size_bytes == size_pages * WASM_PAGE_SIZE
        diff_bytes == last_byte - size_bytes
        diff_pages == diff_bytes \div WASM_PAGE_SIZE
        g == IF size_bytes < last_byte
             THEN Memory_grow(S, b, diff_pages, grant)
             ELSE [ret |-> 0, size |-> b]
        grow_calls == IF size_bytes < last_byte
                      THEN <<[pages |-> diff_pages, ret |-> g.ret]>>
                      ELSE <<>>
        w == Memory_write(S, g.size, m, offset, bytes)
    IN IF size_bytes < last_byte /\ g.ret = -1
       THEN [result |-> "GrowFailed", current_size |-> size_pages, delta |-> diff_pages,
             inner |-> g.size, mem |-> m, grow_calls |-> grow_calls]
       ELSE [result |-> IF w.panic THEN "panic" ELSE "Ok",
             current_size |-> 0, delta |-> 0,
             inner |-> g.size, mem |-> w.mem, grow_calls |-> grow_calls]

\* mutant: the bytes land one byte after the offset asked for
safe_write_off_by_one(S, b, m, offset, bytes, grant) ==
    LET last_byte == offset + Len(bytes)
        size_pages == Memory_size(S, b)
        size_bytes == size_pages * WASM_PAGE_SIZE
        diff_bytes == last_byte - size_bytes
        diff_pages == (diff_bytes + (WASM_PAGE_SIZE - 1)) \div WASM_PAGE_SIZE
        g == IF size_bytes < last_byte
             THEN Memory_grow(S, b, diff_pages, grant)
             ELSE [ret |-> 0, size |-> b]
        grow_calls == IF size_bytes < last_byte
                      THEN <<[pages |-> diff_pages, ret |-> g.ret]>>
                      ELSE <<>>
        w == Memory_write(S, g.size, m, offset + 1, bytes)
    IN IF size_bytes < last_byte /\ g.ret = -1
       THEN [result |-> "GrowFailed", current_size |-> size_pages, delta |-> diff_pages,
             inner |-> g.size, mem |-> m, grow_calls |-> grow_calls]
       ELSE [result |-> IF w.panic THEN "panic" ELSE "Ok",
             current_size |-> 0, delta |-> 0,
             inner |-> g.size, mem |-> w.mem, grow_calls |-> grow_calls]

\* mutant: a whole page is added before the division, so that a write that
\* ends on a page boundary asks for one page too many
safe_write_grows_extra(S, b, m, offset, bytes, grant) ==
    LET last_byte == offset + Len(bytes)
        size_pages == Memory_size(S, b)
        size_bytes == size_pages * WASM_PAGE_SIZE
        diff_bytes == last_byte - size_bytes
        diff_pages == (diff_bytes + WASM_PAGE_SIZE) \div WASM_PAGE_SIZE
        g == IF size_bytes < last_byte
             THEN Memory_grow(S, b, diff_pages, grant)
             ELSE [ret |-> 0, size |-> b]
        grow_calls == IF size_bytes < last_byte
                      THEN <<[pages |-> diff_pages, ret |-> g.ret]>>
                      ELSE <<>>
        w == Memory_write(S, g.size, m, offset, bytes)
    IN IF size_bytes < last_byte /\ g.ret = -1
       THEN [result |-> "GrowFailed", current_size |-> size_pages, delta |-> diff_pages,
             inner |-> g.size, mem |-> m, grow_calls |-> grow_calls]
       ELSE [result |-> IF w.panic THEN "panic" ELSE "Ok",
             current_size |-> 0, delta |-> 0,
             inner |-> g.size, mem |-> w.mem, grow_calls |-> grow_calls]

\* result: "Ok", "GrowFailed" (with current_size and delta) or "panic";
\* grow_calls: the calls safe_write made to the store's grow, in order
safe_write(S, b, m, offset, bytes, grant) ==
    LET last_byte == offset + Len(bytes)
        size_pages == Memory_size(S, b)
        size_bytes == size_pages * WASM_PAGE_SIZE
        diff_bytes == last_byte - size_bytes
        diff_pages == (diff_bytes + (WASM_PAGE_SIZE - 1)) \div WASM_PAGE_SIZE
        g == IF size_bytes < last_byte
             THEN Memory_grow(S, b, diff_pages, grant)
             ELSE [ret |-> 0, size |-> b]
        grow_calls == IF size_bytes < last_byte
                      THEN <<[pages |-> diff_pages, ret |-> g.ret]>>
                      ELSE <<>>
        w == Memory_write(S, g.size, m, offset, bytes)
    IN IF size_bytes < last_byte /\ g.ret = -1
       THEN [result |-> "GrowFailed", current_size |-> size_pages, delta |-> diff_pages,
             inner |-> g.size, mem |-> m, grow_calls |-> grow_calls]
       ELSE [result |-> IF w.panic THEN "panic" ELSE "Ok",
             current_size |-> 0, delta |-> 0,
             inner |-> g.size, mem |-> w.mem, grow_calls |-> grow_calls]

\* like safe_write, but panics if the grow fails
write(S, b, m, offset, bytes, grant) ==
    LET r == safe_write(S, b, m, offset, bytes, grant)
    IN IF r.result = "GrowFailed" THEN [r EXCEPT !.result = "panic"] ELSE r

\* mutant: the chunks are visited in forward order whatever the addresses
CopyOrder_forward(src, dest, count) ==
    [i \in 1..count |-> i - 1]

\* the chunk numbers in the order copy visits them
CopyOrder(src, dest, count) ==
    IF dest <= src THEN [i \in 1..count |-> i - 1]
    ELSE [i \in 1..count |-> count - i]

RECURSIVE CopyChunks(_, _, _, _, _, _, _)
CopyChunks(S, b, m, src, dest, chunk_size, order) ==
    IF order = <<>> THEN [panic |-> FALSE, mem |-> m]
    ELSE LET index == Head(order) * chunk_size
             rd == Memory_read(S, b, m, src + index, chunk_size)
         IN IF rd.panic THEN [panic |-> TRUE, mem |-> m]
            ELSE LET wr == Memory_write(S, b, m, dest + index, rd.bytes)
                 IN IF wr.panic THEN [panic |-> TRUE, mem |-> m]
                    ELSE CopyChunks(S, b, wr.mem, src, dest, chunk_size, Tail(order))

\* mutant: the loop runs once more than count
copy_one_more(S, b, m, src, dest, count, chunk_size) ==
    CopyChunks(S, b, m, src, dest, chunk_size, CopyOrder(src, dest, count + 1))

copy(S, b, m, src, dest, count, chunk_size) ==
    CopyChunks(S, b, m, src, dest, chunk_size, CopyOrder(src, dest, count))

\* ---- the state machine --------------------------------------------------
\* `last` is the call in progress: its arguments, what it returned and the
\* backing store it started from; "none" between calls.
NoCall == [op |-> "none", store |-> Backing, pages |-> 0, ret |-> 0,
           offset |-> 0, bytes |-> <<>>, result |-> "none",
           current_size |-> 0, delta |-> 0, grow_calls |-> <<>>,
           src |-> 0, dest |-> 0, count |-> 0, chunk_size |-> 0,
           len |-> 0, val |-> 0, ty |-> "none",
           pre_inner |-> 0, pre_mem |-> <<>>]

\* the first byte of store S in the backing store
BaseOf(S) == S.start * WASM_PAGE_SIZE

\* a store is created by its backing implementation with zero pages
Init ==
    /\ inner = 0
    /\ mem = <<>>
    /\ aborted = FALSE
    /\ calls = 0
    /\ last = NoCall

CanCall == ~aborted /\ last.op = "none" /\ calls < MaxCalls

Called(op, S) ==
    [NoCall EXCEPT !.op = op, !.store = S, !.pre_inner = inner, !.pre_mem = mem]

\* S.grow(pages)
Grow(S, pages, grant) ==
    /\ CanCall
    /\ LET g == Memory_grow(S, inner, pages, grant)
       IN /\ inner' = g.size
          /\ last' = [Called("grow", S) EXCEPT !.pages = pages, !.ret = g.ret]
    /\ calls' = calls + 1
    /\ UNCHANGED <<mem, aborted>>

\* safe_write(S, offset, bytes)
SafeWrite(S, offset, bytes, grant) ==
    /\ CanCall
    /\ LET r == safe_write(S, inner, mem, offset, bytes, grant)
           c == [Called("safe_write", S) EXCEPT
                    !.offset = offset, !.bytes = bytes, !.result = r.result,
                    !.current_size = r.current_size, !.delta = r.delta,
                    !.grow_calls = r.grow_calls]
       IN /\ inner' = r.inner
          /\ mem' = r.mem
          /\ aborted' = (r.result = "panic")
          /\ last' = c
    /\ calls' = calls + 1

\* write(S, offset, bytes)
Write(S, offset, bytes, grant) ==
    /\ CanCall
    /\ LET r == write(S, inner, mem, offset, bytes, grant)
           c == [Called("write", S) EXCEPT
                    !.offset = offset, !.bytes = bytes, !.result = r.result,
                    !.current_size = r.current_size, !.delta = r.delta,
                    !.grow_calls = r.grow_calls]
       IN /\ inner' = r.inner
          /\ mem' = r.mem
          /\ aborted' = (r.result = "panic")
          /\ last' = c
    /\ calls' = calls + 1

\* copy(S, src, dest, count, chunk_size)
Copy(S, src, dest, count, chunk_size) ==
    /\ CanCall
    /\ LET r == copy(S, inner, mem, src, dest, count, chunk_size)
           c == [Called("copy", S) EXCEPT
                    !.src = src, !.dest = dest, !.count = count,
                    !.chunk_size = chunk_size,
                    !.result = IF r.panic THEN "panic" ELSE "Ok"]
       IN /\ mem' = r.mem
          /\ aborted' = r.panic
          /\ last' = c
    /\ calls' = calls + 1
    /\ UNCHANGED inner

\* the call returns to its caller (a call that panicked never does)
Return ==
    /\ ~aborted
    /\ last.op # "none"
    /\ last' = NoCall
    /\ UNCHANGED <<inner, mem, aborted, calls>>

\* one call at a time: the caller picks the store and the arguments
GrowCall ==
    /\ CanCall
    /\ \E S \in Stores, pages \in 0..MaxDelta, grant \in BOOLEAN :
          Grow(S, pages, grant)

SafeWriteCall ==
    /\ CanCall
    /\ \E S \in Stores, offset \in Offsets, bytes \in ByteSeqs, grant \in BOOLEAN :
          SafeWrite(S, offset, bytes, grant)

WriteCall ==
    /\ CanCall
    /\ \E S \in Stores, offset \in Offsets, bytes \in ByteSeqs, grant \in BOOLEAN :
          Write(S, offset, bytes, grant)

CopyCall ==
    /\ CanCall
    /\ \E S \in Stores, src \in 0..MaxCopyAddr, dest \in 0..MaxCopyAddr,
          count \in 0..MaxCount, chunk_size \in 1..MaxChunk :
          Copy(S, src, dest, count, chunk_size)

Next ==
    \/ GrowCall
    \/ SafeWriteCall
    \/ WriteCall
    \/ CopyCall
    \/ Return

Spec == Init /\ [][Next]_vars

\* ---- copy over a store that holds bytes ---------------------------------
\* every filling of the first MaxFill bytes of a page
FillSeqs == [1..MaxFill -> Byte]

\* the backing store has MaxPages pages and earlier writes have filled the
\* first bytes of one of them
CopyInit ==
    /\ inner = MaxPages
    /\ \E page \in 0..(MaxPages - 1), bs \in FillSeqs :
          mem = StoreBytes(<<>>, page * WASM_PAGE_SIZE, bs)
    /\ aborted = FALSE
    /\ calls = 0
    /\ last = NoCall

\* one copy is made on the filled store: CopyInit ranges over every filling,
\* so a second copy would start from a state a first copy starts from
CopyOverlapCall ==
    /\ CanCall
    /\ calls = 0
    /\ \E S \in Stores, src \in 0..MaxCopyOff, dest \in 0..MaxCopyOff,
          count \in 0..MaxCopyCount, chunk_size \in 1..MaxCopyChunk :
          Copy(S, src, dest, count, chunk_size)

CopyNext ==
    \/ CopyOverlapCall
    \/ Return

CopySpec == CopyInit /\ [][CopyNext]_vars

\* ---- reading and writing through a store --------------------------------
\* offsets at the start and at the end of a page, and in the filled bytes
ViewOffsets == Offsets \cup (0..MaxCopyOff)

\* S.read(offset, dst) with a dst of n bytes
MemRead(S, offset, n) ==
    /\ CanCall
    /\ LET rd == Memory_read(S, inner, mem, offset, n)
       IN /\ aborted' = rd.panic
          /\ last' = [Called("read", S) EXCEPT
                         !.offset = offset, !.len = n, !.bytes = rd.bytes,
                         !.result = IF rd.panic THEN "panic" ELSE "Ok"]
    /\ calls' = calls + 1
    /\ UNCHANGED <<inner, mem>>

\* S.write(offset, src)
MemWrite(S, offset, src) ==
    /\ CanCall
    /\ LET wr == Memory_write(S, inner, mem, offset, src)
       IN /\ mem' = wr.mem
          /\ aborted' = wr.panic
          /\ last' = [Called("mem_write", S) EXCEPT
                         !.offset = offset, !.len = Len(src), !.bytes = src,
                         !.result = IF wr.panic THEN "panic" ELSE "Ok"]
    /\ calls' = calls + 1
    /\ UNCHANGED inner

\* one call is made on the filled store: CopyInit ranges over every filling
MemReadCall ==
    /\ CanCall
    /\ calls = 0
    /\ \E S \in Stores, offset \in ViewOffsets, n \in 0..MaxCopyChunk :
          MemRead(S, offset, n)

MemWriteCall ==
    /\ CanCall
    /\ calls = 0
    /\ \E S \in Stores, offset \in ViewOffsets, src \in ByteSeqs :
          MemWrite(S, offset, src)

ViewNext ==
    \/ MemReadCall
    \/ MemWriteCall
    \/ Return

ViewSpec == CopyInit /\ [][ViewNext]_vars

\* ---- the little-endian integer helpers ----------------------------------
\* the first n bytes of v, least significant first
RECURSIVE LeBytes(_, _)
LeBytes(v, n) ==
    IF n = 0 THEN <<>> ELSE <<v % 256>> \o LeBytes(v \div 256, n - 1)

\* mutant: the most significant byte comes first
to_le_bytes_msb_first(v, n) ==
    [i \in 1..n |-> LeBytes(v, n)[n + 1 - i]]

\* u32::to_le_bytes (n = 4), u64::to_le_bytes (n = 8)
to_le_bytes(v, n) == LeBytes(v, n)

\* u32::from_le_bytes, u64::from_le_bytes
RECURSIVE from_le_bytes(_)
from_le_bytes(buf) ==
    IF buf = <<>> THEN 0 ELSE Head(buf) + 256 * from_le_bytes(Tail(buf))

\* read_u32 (n = 4), read_u64 (n = 8)
read_uN(S, b, m, addr, n) ==
    LET rd == Memory_read(S, b, m, addr, n)
    IN IF rd.panic THEN [panic |-> TRUE, val |-> 0]
       ELSE [panic |-> FALSE, val |-> from_le_bytes(rd.bytes)]

\* write_u32 (n = 4), write_u64 (n = 8)
write_uN(S, b, m, addr, val, n, grant) ==
    write(S, b, m, addr, to_le_bytes(val, n), grant)

\* the widths of u32 and u64 in bytes
IntWidths == {4, 8}

\* the values written; TLC's integers end at 2^31 - 1, so that the upper
\* half of a u64 is zero in every value
IntVals ==
    {d * 256^k + e : k \in 0..3, d \in {1, 127}, e \in 0..MaxLow}
        \cup {0, 16909060, 2147483647}

\* addresses at the start of a page, and 4 bytes or 1 byte before its end
IntAddrs ==
    {p * WASM_PAGE_SIZE + w : p \in 0..MaxOffPage,
                              w \in {0, WASM_PAGE_SIZE - 4, WASM_PAGE_SIZE - 1}}

\* a store of any size that holds no bytes yet
IntInit ==
    /\ inner \in 0..MaxPages
    /\ mem = <<>>
    /\ aborted = FALSE
    /\ calls = 0
    /\ last = NoCall

\* write_u32(S, addr, val) or write_u64(S, addr, val)
WriteInt(S, addr, val, n, grant) ==
    /\ CanCall
    /\ LET r == write_uN(S, inner, mem, addr, val, n, grant)
       IN /\ inner' = r.inner
          /\ mem' = r.mem
          /\ aborted' = (r.result = "panic")
          /\ last' = [Called("write_uN", S) EXCEPT
                         !.offset = addr, !.val = val, !.len = n,
                         !.bytes = to_le_bytes(val, n), !.result = r.result,
                         !.grow_calls = r.grow_calls]
    /\ calls' = calls + 1

\* the caller reads the integer it has just written: read_u32(S, addr) or
\* read_u64(S, addr)
ReadInt ==
    /\ ~aborted
    /\ last.op = "write_uN"
    /\ LET rd == read_uN(last.store, inner, mem, last.offset, last.len)
       IN /\ aborted' = rd.panic
          /\ last' = [last EXCEPT !.op = "read_uN", !.ret = rd.val,
                                  !.result = IF rd.panic THEN "panic" ELSE "Ok"]
    /\ UNCHANGED <<inner, mem, calls>>

\* one integer is written and read back: the write stores all of its bytes,
\* so that what the store held before does not reach the read
WriteIntCall ==
    /\ CanCall
    /\ calls = 0
    /\ \E S \in Stores, addr \in IntAddrs, val \in IntVals, n \in IntWidths,
          grant \in BOOLEAN :
          WriteInt(S, addr, val, n, grant)

IntNext ==
    \/ WriteIntCall
    \/ ReadInt
    \/ Return

IntSpec == IntInit /\ [][IntNext]_vars

\* ---- storable.rs: Storable and BoundedStorable --------------------------
\* the built-in implementers
IntTypes == {"u8", "u16", "u32", "u64", "u128"}

BoundedTypes == {"unit"} \cup IntTypes

StorableTypes == BoundedTypes \cup {"vec", "string"}

\* core::mem::size_of of the integer types
SizeOf(T) ==
    CASE T = "u8" -> 1 [] T = "u16" -> 2 [] T = "u32" -> 4
      [] T = "u64" -> 8 [] T = "u128" -> 16

\* mutant: the u128 implementation advertises the size of a u64
max_size_of_u64(T) ==
    CASE T = "unit" -> 0 [] T = "u8" -> 1 [] T = "u16" -> 2 [] T = "u32" -> 4
      [] T = "u64" -> 8 [] T = "u128" -> 8

\* BoundedStorable::max_size
max_size(T) ==
    CASE T = "unit" -> 0 [] T = "u8" -> 1 [] T = "u16" -> 2 [] T = "u32" -> 4
      [] T = "u64" -> 8 [] T = "u128" -> 16

\* mutant: the least significant byte comes first
to_be_bytes_lsb_first(v, n) == LeBytes(v, n)

\* uN::to_be_bytes: the n bytes of v, most significant first
to_be_bytes(v, n) ==
    LET le == LeBytes(v, n)
    IN [i \in 1..n |-> le[n + 1 - i]]

\* mutant: the first byte is taken for the least significant
from_be_bytes_lsb_first(buf) == from_le_bytes(buf)

\* uN::from_be_bytes
RECURSIVE from_be_bytes(_)
from_be_bytes(buf) ==
    IF buf = <<>> THEN 0
    ELSE buf[Len(buf)] + 256 * from_be_bytes(SubSeq(buf, 1, Len(buf) - 1))

\* the UTF-8 bytes of one character (a Unicode scalar value)
Utf8OfChar(c) ==
    IF c < 128 THEN <<c>>
    ELSE IF c < 2048 THEN <<192 + (c \div 64), 128 + (c % 64)>>
    ELSE IF c < 65536
    THEN <<224 + (c \div 4096), 128 + ((c \div 64) % 64), 128 + (c % 64)>>
    ELSE <<240 + (c \div 262144), 128 + ((c \div 4096) % 64),
           128 + ((c \div 64) % 64), 128 + (c % 64)>>

\* str::as_bytes: a String holds the UTF-8 bytes of its characters
RECURSIVE as_bytes(_)
as_bytes(s) ==
    IF s = <<>> THEN <<>> ELSE Utf8OfChar(Head(s)) \o as_bytes(Tail(s))

IsContinuation(bs, i) == i <= Len(bs) /\ bs[i] >= 128 /\ bs[i] < 192

\* String::from_utf8: the characters, or an error for bytes that are not
\* well-formed UTF-8 (a stray or missing continuation byte, an overlong
\* form, a surrogate, a value above U+10FFFF)
RECURSIVE from_utf8(_)
from_utf8(bs) ==
    IF bs = <<>> THEN [ok |-> TRUE, chars |-> <<>>]
    ELSE LET b0 == bs[1]
             n == IF b0 < 128 THEN 1
                  ELSE IF b0 >= 192 /\ b0 < 224 THEN 2
                  ELSE IF b0 >= 224 /\ b0 < 240 THEN 3
                  ELSE IF b0 >= 240 /\ b0 < 248 THEN 4
                  ELSE 0
             c == IF n = 1 THEN b0
                  ELSE IF n = 2 THEN (b0 - 192) * 64 + (bs[2] - 128)
                  ELSE IF n = 3
                  THEN (b0 - 224) * 4096 + (bs[2] - 128) * 64 + (bs[3] - 128)
                  ELSE (b0 - 240) * 262144 + (bs[2] - 128) * 4096
                           + (bs[3] - 128) * 64 + (bs[4] - 128)
             well_formed ==
                 /\ n > 0
                 /\ \A i \in 2..n : IsContinuation(bs, i)
                 /\ n = 2 => c >= 128
                 /\ n = 3 => (c >= 2048 /\ ~(c >= 55296 /\ c < 57344))
                 /\ n = 4 => (c >= 65536 /\ c <= 1114111)
         IN IF ~well_formed THEN [ok |-> FALSE, chars |-> <<>>]
            ELSE LET rest == from_utf8(SubSeq(bs, n + 1, Len(bs)))
                 IN IF rest.ok THEN [ok |-> TRUE, chars |-> <<c>> \o rest.chars]
                    ELSE rest

\* Storable::to_bytes of a value v of type T
to_bytes(T, v) ==
    CASE T = "unit" -> <<>>
      [] T = "vec" -> v
      [] T = "string" -> as_bytes(v)
      [] T \in IntTypes -> to_be_bytes(v, SizeOf(T))

\* Storable::from_bytes for type T: the value, or a panic (the assert of (),
\* the unwrap of from_utf8 or of try_into)
from_bytes(T, bytes) ==
    CASE T = "unit" -> [panic |-> bytes # <<>>, val |-> "()"]
      [] T = "vec" -> [panic |-> FALSE, val |-> bytes]
      [] T = "string" ->
            LET r == from_utf8(bytes) IN [panic |-> ~r.ok, val |-> r.chars]
      [] T \in IntTypes ->
            IF Len(bytes) # SizeOf(T) THEN [panic |-> TRUE, val |-> 0]
            ELSE [panic |-> FALSE, val |-> from_be_bytes(bytes)]

\* bytes and characters the values are made of: A, e acute, the euro sign
\* and an emoji take 1, 2, 3 and 4 bytes of UTF-8
SampleBytes == {0, 65, 255}

SampleChars == {65, 233, 8364, 128512}

RECURSIVE SeqsOver(_, _)
SeqsOver(A, n) ==
    IF n = 0 THEN {<<>>}
    ELSE LET shorter == SeqsOver(A, n - 1)
         IN shorter \cup {Append(s, x) : s \in {q \in shorter : Len(q) = n - 1}, x \in A}

\* the values of type T; the integers are those of IntVals and the ends of
\* the one- and two-byte ranges that the type holds (TLC's integers end at
\* 2^31 - 1, so that the wider types are not covered to their end)
ValuesOf(T) ==
    CASE T = "unit" -> {"()"}
      [] T = "vec" -> SeqsOver(SampleBytes, MaxVecLen)
      [] T = "string" -> SeqsOver(SampleChars, MaxStrLen)
      [] T = "u8" -> {v \in IntVals \cup {255} : v < 256}
      [] T = "u16" -> {v \in IntVals \cup {255, 65535} : v < 65536}
      [] T \in {"u32", "u64", "u128"} -> IntVals \cup {255, 65535}

\* nothing is stored: the conversions are functions of their arguments
StorableInit ==
    /\ inner = 0
    /\ mem = <<>>
    /\ aborted = FALSE
    /\ calls = 0
    /\ last = NoCall

\* v.to_bytes()
ToBytes(T, v) ==
    /\ ~aborted
    /\ last.op = "none"
    /\ last' = [NoCall EXCEPT !.op = "to_bytes", !.ty = T, !.val = v,
                              !.bytes = to_bytes(T, v), !.result = "Ok"]
    /\ UNCHANGED <<inner, mem, aborted, calls>>

\* T::from_bytes(bytes.to_owned()) of the bytes to_bytes has returned
FromBytes ==
    /\ ~aborted
    /\ last.op = "to_bytes"
    /\ LET d == from_bytes(last.ty, last.bytes)
       IN /\ aborted' = d.panic
          /\ last' = [last EXCEPT !.op = "from_bytes", !.ret = d.val,
                                  !.result = IF d.panic THEN "panic" ELSE "Ok"]
    /\ UNCHANGED <<inner, mem, calls>>

ToBytesCall ==
    /\ ~aborted
    /\ last.op = "none"
    /\ \E T \in StorableTypes : \E v \in ValuesOf(T) : ToBytes(T, v)

StorableNext ==
    \/ ToBytesCall
    \/ FromBytes
    \/ Return

StorableSpec == StorableInit /\ [][StorableNext]_vars

\* ---- RestrictedMemory::new at the limit of the address space -----------
\* mutant: the end of the range is compared with the largest address, not
\* with the largest page number
new_compares_bytes(s, e) ==
    [panic |-> ~(e < U64_MAX), region |-> RestrictedMemory(s, e)]

\* RestrictedMemory::new(memory, s..e): the assertion fails or the view is made
new(s, e) ==
    [panic |-> ~(e < U64_MAX \div WASM_PAGE_SIZE), region |-> RestrictedMemory(s, e)]

\* the ends of the page ranges: near 0 and near the limit
NewEnds ==
    (0..MaxNear)
        \cup {(U64_MAX \div WASM_PAGE_SIZE) + d - MaxNear : d \in 0..(2 * MaxNear)}

\* the starts of the ranges that end at e: a Range<u64> may be empty or
\* have its start after its end
NewStarts(e) == {s \in {0, 1, e - 1, e, e + 1} : s >= 0}

\* offsets at the start of region r, at its end and one byte either side of
\* its end
NewOffsets(r) ==
    {o \in {0, 1} \cup {(r.end - r.start) * WASM_PAGE_SIZE + d : d \in {-1, 0, 1}} : o >= 0}

\* the inner store is empty, or as large as the largest view can use
NewInit ==
    /\ inner \in {0, (U64_MAX \div WASM_PAGE_SIZE) - 1}
    /\ mem = <<>>
    /\ aborted = FALSE
    /\ calls = 0
    /\ last = NoCall

\* RestrictedMemory::new(inner, s..e)
NewRegion(s, e) ==
    /\ CanCall
    /\ LET r == new(s, e)
       IN /\ aborted' = r.panic
          /\ last' = [Called("new", r.region) EXCEPT
                         !.result = IF r.panic THEN "panic" ELSE "Ok"]
    /\ calls' = calls + 1
    /\ UNCHANGED <<inner, mem>>

\* R.read(offset, dst) through the view just made, dst of n bytes
RegionRead(offset, n) ==
    /\ ~aborted
    /\ last.op = "new"
    /\ LET rd == Memory_read(last.store, inner, mem, offset, n)
       IN /\ aborted' = rd.panic
          /\ last' = [last EXCEPT !.op = "read", !.offset = offset, !.len = n,
                                  !.bytes = rd.bytes,
                                  !.result = IF rd.panic THEN "panic" ELSE "Ok"]
    /\ UNCHANGED <<inner, mem, calls>>

\* R.write(offset, src) through the view just made
RegionWrite(offset, src) ==
    /\ ~aborted
    /\ last.op = "new"
    /\ LET wr == Memory_write(last.store, inner, mem, offset, src)
       IN /\ mem' = wr.mem
          /\ aborted' = wr.panic
          /\ last' = [last EXCEPT !.op = "mem_write", !.offset = offset,
                                  !.len = Len(src), !.bytes = src,
                                  !.result = IF wr.panic THEN "panic" ELSE "Ok"]
    /\ UNCHANGED <<inner, calls>>

\* one view is made and used once
NewRegionCall ==
    /\ CanCall
    /\ calls = 0
    /\ \E e \in NewEnds : \E s \in NewStarts(e) : NewRegion(s, e)

RegionReadCall ==
    /\ ~aborted
    /\ last.op = "new"
    /\ \E offset \in NewOffsets(last.store), n \in 0..MaxLen : RegionRead(offset, n)

RegionWriteCall ==
    /\ ~aborted
    /\ last.op = "new"
    /\ \E offset \in NewOffsets(last.store), src \in ByteSeqs : RegionWrite(offset, src)

NewNext ==
    \/ NewRegionCall
    \/ RegionReadCall
    \/ RegionWriteCall
    \/ Return

NewSpec == NewInit /\ [][NewNext]_vars

\* ---- what the claims speak of -------------------------------------------
IsRegion(S) == S.kind = "restricted"

Clamp(x, lo, hi) == IF x < lo THEN lo ELSE IF x > hi THEN hi ELSE x

CeilDiv(x, y) == IF x % y = 0 THEN x \div y ELSE (x \div y) + 1

Disjoint(R1, R2) == R1.end <= R2.start \/ R2.end <= R1.start

\* the bytes of the backing store the call in `last` wrote: [lo, hi)
WrittenLo ==
    IF last.op = "copy" THEN BaseOf(last.store) + last.dest
    ELSE BaseOf(last.store) + last.offset

WrittenHi ==
    IF last.op = "copy" THEN WrittenLo + last.count * last.chunk_size
    ELSE IF last.op \in {"safe_write", "write"} /\ last.result = "Ok"
    THEN WrittenLo + Len(last.bytes)
    ELSE WrittenLo

\* C1: a region never grows the inner store past its own end: a grow or a
\* safe_write made through a region R = [s, e) that starts with
\* inner.size() <= e ends with inner.size() <= e.
C1_NeverGrowsPastEnd ==
    (/\ last.op \in {"grow", "safe_write"}
     /\ IsRegion(last.store)
     /\ last.pre_inner <= last.store.end)
    => inner <= last.store.end

\* C2: restricted-view growth refusal: if R.size() + d > e - s then R.grow(d)
\* returns -1 and inner.size() is what it was before the call.
C2_GrowthRefusal ==
    (/\ last.op = "grow"
     /\ IsRegion(last.store)
     /\ RestrictedMemory_size(last.store, last.pre_inner) + last.pages
            > last.store.end - last.store.start)
    => (last.ret = -1 /\ inner = last.pre_inner)

\* C3: safe-write growth: whenever safe_write(S, o, b) returns Ok,
\* S.size() * 65536 >= o + len(b) afterwards.
C3_SafeWriteGrowth ==
    (last.op = "safe_write" /\ last.result = "Ok")
    => Memory_size(last.store, inner) * WASM_PAGE_SIZE
           >= last.offset + Len(last.bytes)

\* C4: regions do not collide: a grow or a safe_write made through R1 leaves
\* every inner byte of the page range of a region R2 disjoint from R1 as it
\* was (a byte the backing store does not hold yet counts as the zero it
\* will read as).
C4_RegionsDoNotCollide ==
    (last.op \in {"grow", "safe_write"} /\ IsRegion(last.store))
    => \A R2 \in Regions :
          Disjoint(last.store, R2)
          => \A a \in (DOMAIN mem) \cup (DOMAIN last.pre_mem) :
                (BaseOf(R2) <= a /\ a < R2.end * WASM_PAGE_SIZE)
                => ByteAt(mem, a) = ByteAt(last.pre_mem, a)

\* C5: in every reachable state and for every region R = [s, e),
\* R.size() = clamp(b - s, 0, e - s) for the inner size b, so R.size() <= e - s.
C5_SizeIsClamp ==
    \A R \in Regions :
        /\ RestrictedMemory_size(R, inner) = Clamp(inner - R.start, 0, R.end - R.start)
        /\ RestrictedMemory_size(R, inner) <= R.end - R.start

\* a state in which one region is capped (b > e) and another partly backed
C5_Witness ==
    /\ last.op = "grow"
    /\ \E R1, R2, R3 \in Regions :
          /\ inner > R1.end
          /\ R2.start < inner /\ inner < R2.end
          /\ last.pre_inner < R3.start /\ RestrictedMemory_size(R3, last.pre_inner) = 0

\* C6: when the store's grow returns -1 during safe_write(S, o, b), safe_write
\* returns GrowFailed with current_size = S.size() before the call and
\* delta = ceil((o + len(b) - size_bytes) / 65536), and the size and every
\* byte of the store are what they were before the call.
C6_GrowFailedLeavesStore ==
    (/\ last.op = "safe_write"
     /\ last.grow_calls # <<>>
     /\ last.grow_calls[1].ret = -1)
    => LET S == last.store
           size_before == Memory_size(S, last.pre_inner)
       IN /\ last.result = "GrowFailed"
          /\ last.current_size = size_before
          /\ last.delta = CeilDiv(last.offset + Len(last.bytes)
                                      - size_before * WASM_PAGE_SIZE, WASM_PAGE_SIZE)
          /\ Memory_size(S, inner) = size_before
          /\ inner = last.pre_inner
          /\ mem = last.pre_mem

\* a safe_write through a region that holds bytes is refused
C6_Witness ==
    /\ last.op = "safe_write"
    /\ last.result = "GrowFailed"
    /\ IsRegion(last.store)
    /\ last.pre_mem # <<>>
    /\ last.delta > 1

\* C7: when grow(d) does not return -1 it returns the size() of just before
\* the call, and size() just after the call is that size plus d.
C7_GrowContract ==
    (last.op = "grow" /\ last.ret # -1)
    => /\ last.ret = Memory_size(last.store, last.pre_inner)
       /\ Memory_size(last.store, inner) = last.ret + last.pages

\* C8: grow(0) never returns -1 and returns the value size() reports.
C8_GrowZeroSucceeds ==
    (last.op = "grow" /\ last.pages = 0)
    => /\ last.ret # -1
       /\ last.ret = Memory_size(last.store, inner)

\* the bytes of the backing store that are not zero before or after the call
Touched == (DOMAIN mem) \cup (DOMAIN last.pre_mem)

\* C9: round-trip bytes: after safe_write(S, o, b) returns Ok, reading len(b)
\* bytes of S at o returns b; and b keeps being returned until a later write
\* overlaps [o, o + len(b)): over every call, each byte the call does not
\* write stays readable and reads the same through every store that reaches
\* it (a byte outside Touched is zero before and after).
C9_RoundTrip ==
    /\ (last.op = "safe_write" /\ last.result = "Ok")
       => LET rd == Memory_read(last.store, inner, mem, last.offset, Len(last.bytes))
          IN ~rd.panic /\ rd.bytes = last.bytes
    /\ inner >= last.pre_inner
    /\ last.op # "none"
       => \A a \in Touched :
             (WrittenLo <= a /\ a < WrittenHi)
             \/ \A S \in Stores :
                   (BaseOf(S) <= a
                    /\ ~Memory_read(S, last.pre_inner, last.pre_mem, a - BaseOf(S), 1).panic)
                   => LET after == Memory_read(S, inner, mem, a - BaseOf(S), 1)
                      IN /\ ~after.panic
                         /\ after.bytes = Memory_read(S, last.pre_inner, last.pre_mem,
                                                      a - BaseOf(S), 1).bytes

\* a byte written through a region is still read back through it after a
\* later safe_write through another store has grown the backing store and
\* written elsewhere
C9_Witness ==
    /\ last.op = "safe_write"
    /\ last.result = "Ok"
    /\ last.bytes # <<>>
    /\ inner > last.pre_inner
    /\ \E a \in DOMAIN last.pre_mem, S \in Regions :
          /\ S # last.store
          /\ BaseOf(S) <= a
          /\ ~(WrittenLo <= a /\ a < WrittenHi)
          /\ Memory_read(S, last.pre_inner, last.pre_mem, a - BaseOf(S), 1).bytes = <<1>>
          /\ Memory_read(S, inner, mem, a - BaseOf(S), 1).bytes = <<1>>

\* C10: grow monotonicity: no call (grow, safe_write, write or copy, granted
\* or refused) makes the size() of the backing store or of a restricted view
\* smaller from one state to the next.
C10_SizeNeverDecreases ==
    [][\A S \in Stores : Memory_size(S, inner') >= Memory_size(S, inner)]_vars

\* a refused write after the backing store and a view have grown
C10_Witness ==
    /\ last.op = "write"
    /\ last.result = "panic"
    /\ last.grow_calls # <<>>
    /\ inner > 1
    /\ \E R \in Regions : R.start > 0 /\ RestrictedMemory_size(R, inner) = R.end - R.start

\* C13: a successful safe_write(S, o, b) changes only the bytes [o, o + len(b))
\* of S: every other byte of a page that existed before the call keeps its
\* value, and every other byte of a page the call added reads as 0 (a byte
\* outside Touched is zero before and after).
C13_SafeWriteFrame ==
    (last.op = "safe_write" /\ last.result = "Ok")
    => /\ inner >= last.pre_inner
       /\ \A a \in Touched :
             /\ a < inner * WASM_PAGE_SIZE
             /\ (WrittenLo <= a /\ a < WrittenHi)
                \/ IF a < last.pre_inner * WASM_PAGE_SIZE
                   THEN ByteAt(mem, a) = ByteAt(last.pre_mem, a)
                   ELSE ByteAt(mem, a) = 0

\* a safe_write that adds pages to a store that holds bytes, and stores a
\* byte that is not zero
C13_Witness ==
    /\ last.op = "safe_write"
    /\ last.result = "Ok"
    /\ inner > last.pre_inner
    /\ last.pre_mem # <<>>
    /\ mem # last.pre_mem
    /\ IsRegion(last.store)

\* C17: safe_write grows by the minimum needed and only when needed: with
\* p = S.size() before the call and last = o + len(b), if last <= p * 65536
\* grow is not called and the size stays p; otherwise grow is called exactly
\* once, with ceil((last - p * 65536) / 65536) pages, and on a backing store
\* that grants the request the size afterwards is ceil(last / 65536).
C17_MinimalGrowth ==
    last.op = "safe_write"
    => LET S == last.store
           p == Memory_size(S, last.pre_inner)
           last_byte == last.offset + Len(last.bytes)
       IN IF last_byte <= p * WASM_PAGE_SIZE
          THEN /\ last.grow_calls = <<>>
               /\ Memory_size(S, inner) = p
          ELSE /\ Len(last.grow_calls) = 1
               /\ last.grow_calls[1].pages
                      = CeilDiv(last_byte - p * WASM_PAGE_SIZE, WASM_PAGE_SIZE)
               /\ (S = Backing /\ last.grow_calls[1].ret # -1)
                  => Memory_size(S, inner) = CeilDiv(last_byte, WASM_PAGE_SIZE)

\* the backing store holds a page and grows by one more for a write that
\* ends on the boundary of the second page
C17_Witness ==
    /\ last.op = "safe_write"
    /\ last.result = "Ok"
    /\ last.store = Backing
    /\ last.pre_inner = 1
    /\ last.offset + Len(last.bytes) = 2 * WASM_PAGE_SIZE
    /\ Len(last.grow_calls) = 1
    /\ inner = 2

\* both ranges of the copy in `last` lie inside its store
CopyInsideStore ==
    LET size_bytes == Memory_size(last.store, last.pre_inner) * WASM_PAGE_SIZE
        n == last.count * last.chunk_size
    IN last.src + n <= size_bytes /\ last.dest + n <= size_bytes

\* C11: copy correctness under overlap: for copy(store, src, dst, n, c) with
\* both ranges inside the store, the call completes and the bytes at
\* [dst, dst + n*c) after it are the bytes that were at [src, src + n*c)
\* before it, whatever the order of src and dst and the distance between them.
C11_CopyUnderOverlap ==
    (last.op = "copy" /\ CopyInsideStore)
    => LET n == last.count * last.chunk_size
       IN /\ last.result = "Ok"
          /\ Memory_read(last.store, inner, mem, last.dest, n).bytes
                 = Memory_read(last.store, last.pre_inner, last.pre_mem, last.src, n).bytes

\* a copy towards higher addresses over a distance smaller than the chunk,
\* of bytes that are not all equal
C11_Witness ==
    /\ last.op = "copy"
    /\ CopyInsideStore
    /\ IsRegion(last.store)
    /\ last.count >= 2
    /\ last.dest > last.src
    /\ last.dest - last.src < last.chunk_size
    /\ mem # last.pre_mem

\* C19: copy has no effect outside its destination: for copy(store, src, dst,
\* n, c) with both ranges inside the store, every byte outside
\* [dst, dst + n*c) is what it was, size() of every store is unchanged, and
\* a copy with n = 0 or src = dst leaves the whole store unchanged.
C19_CopyFrame ==
    (last.op = "copy" /\ CopyInsideStore)
    => /\ \A a \in Touched :
             (WrittenLo <= a /\ a < WrittenHi) \/ ByteAt(mem, a) = ByteAt(last.pre_mem, a)
       /\ inner = last.pre_inner
       /\ \A S \in Stores : Memory_size(S, inner) = Memory_size(S, last.pre_inner)
       /\ (last.count = 0 \/ last.src = last.dest) => mem = last.pre_mem

\* a copy that changes its destination next to a byte that is not zero
C19_Witness ==
    /\ last.op = "copy"
    /\ CopyInsideStore
    /\ last.result = "Ok"
    /\ mem # last.pre_mem
    /\ \E a \in DOMAIN mem : a >= WrittenHi
    /\ \E a \in DOMAIN mem : a < WrittenLo

\* the call in `last` went through a region R = [s, e) with inner.size() >= e
\* and stayed inside it: o + n <= (e - s) * 65536
InsideBackedRegion ==
    /\ IsRegion(last.store)
    /\ last.pre_inner >= last.store.end
    /\ last.offset + last.len
           <= (last.store.end - last.store.start) * WASM_PAGE_SIZE

\* C12: restricted-view transparency: for R = [s, e) with inner.size() >= e
\* and o + n <= (e - s) * 65536, R.read(o, n bytes) returns the bytes
\* inner.read(s * 65536 + o, n bytes) returns, and R.write(o, b) changes
\* exactly the inner bytes [s * 65536 + o, s * 65536 + o + len(b)): they hold
\* b afterwards and every other inner byte and the inner size are unchanged.
C12_ViewTransparency ==
    /\ (last.op = "read" /\ InsideBackedRegion)
       => LET direct == Memory_read(Backing, last.pre_inner, last.pre_mem,
                                    BaseOf(last.store) + last.offset, last.len)
          IN /\ last.result = "Ok"
             /\ ~direct.panic
             /\ last.bytes = direct.bytes
    /\ (last.op = "mem_write" /\ InsideBackedRegion)
       => /\ last.result = "Ok"
          /\ inner = last.pre_inner
          /\ Memory_read(Backing, inner, mem,
                         BaseOf(last.store) + last.offset, last.len).bytes = last.bytes
          /\ \A a \in Touched :
                \/ /\ BaseOf(last.store) + last.offset <= a
                   /\ a < BaseOf(last.store) + last.offset + last.len
                \/ ByteAt(mem, a) = ByteAt(last.pre_mem, a)

\* a read through a region that does not start at page 0 returns bytes
\* that earlier writes stored
C12_Witness ==
    /\ last.op = "read"
    /\ InsideBackedRegion
    /\ last.store.start > 0
    /\ last.offset > 0
    /\ 1 \in {last.bytes[i] : i \in 1..Len(last.bytes)}
    /\ 0 \in {last.bytes[i] : i \in 1..Len(last.bytes)}

\* a write through a region that does not start at page 0 changes a byte
C12_WitnessWrite ==
    /\ last.op = "mem_write"
    /\ InsideBackedRegion
    /\ last.store.start > 0
    /\ mem # last.pre_mem

\* byte i (from 0) of the little-endian encoding of a value below 2^31
LeDigit(v, i) == IF i < 4 THEN (v \div (256^i)) % 256 ELSE 0

\* C14: integer encoding round-trip: after write_u32(m, a, v) read_u32(m, a)
\* is v, after write_u64(m, a, v) read_u64(m, a) is v, on any store and
\* whether or not the write had to grow it, and the bytes stored at a.. are
\* the little-endian encoding of v, least significant byte at a.
C14_IntRoundTrip ==
    /\ (last.op = "write_uN" /\ last.result = "Ok")
       => \A i \in 0..(last.len - 1) :
             ByteAt(mem, BaseOf(last.store) + last.offset + i) = LeDigit(last.val, i)
    /\ last.op = "read_uN"
       => /\ last.result = "Ok"
          /\ last.ret = last.val

\* a u64 whose bytes differ is read back through a region after a write
\* that grew the store across a page boundary
C14_Witness ==
    /\ last.op = "read_uN"
    /\ last.len = 8
    /\ last.val = 16909060
    /\ IsRegion(last.store)
    /\ last.grow_calls # <<>>
    /\ last.offset % WASM_PAGE_SIZE = WASM_PAGE_SIZE - 4
    /\ last.ret = 16909060

\* byte-wise lexicographic order of two byte sequences
RECURSIVE LexLess(_, _)
LexLess(a, b) ==
    IF b = <<>> THEN FALSE
    ELSE IF a = <<>> THEN TRUE
    ELSE IF Head(a) # Head(b) THEN Head(a) < Head(b)
    ELSE LexLess(Tail(a), Tail(b))

\* C15: big-endian integers preserve order: for each unsigned width and all
\* values x < y of that width, to_bytes(x) is lexicographically less than
\* to_bytes(y) under byte-wise comparison.
C15_BigEndianOrder ==
    (last.op = "to_bytes" /\ last.ty \in IntTypes)
    => \A y \in ValuesOf(last.ty) :
          /\ last.val < y => LexLess(last.bytes, to_bytes(last.ty, y))
          /\ y < last.val => LexLess(to_bytes(last.ty, y), last.bytes)

\* 256 has been encoded as a u64: its low byte is smaller than that of 1 and 255
C15_Witness ==
    /\ last.op = "to_bytes"
    /\ last.ty = "u64"
    /\ last.val = 256
    /\ {1, 255, 65536} \subseteq ValuesOf("u64")
    /\ LexLess(to_bytes("u64", 255), last.bytes)

\* C16: encode/decode round-trip: for every value v of each built-in
\* encodable type, from_bytes(to_bytes(v).to_owned()) is v and the decoding
\* does not abort.
C16_EncodeDecode ==
    last.op = "from_bytes"
    => /\ last.result = "Ok"
       /\ last.ret = last.val

\* a string of characters of different UTF-8 lengths has been decoded
C16_Witness ==
    /\ last.op = "from_bytes"
    /\ last.ty = "string"
    /\ Len(last.val) = 2
    /\ Len(last.bytes) >= 5
    /\ last.ret = last.val

\* C20: bounded built-in encodings fit their advertised bound: for every
\* value v of (), u8, u16, u32, u64, u128, len(to_bytes(v)) is max_size() of
\* the type: 0, 1, 2, 4, 8, 16.
C20_BoundedSizes ==
    /\ <<max_size("unit"), max_size("u8"), max_size("u16"), max_size("u32"),
         max_size("u64"), max_size("u128")>> = <<0, 1, 2, 4, 8, 16>>
    /\ (last.op = "to_bytes" /\ last.ty \in BoundedTypes)
       => Len(last.bytes) = max_size(last.ty)

\* a u128 that is not zero has been encoded
C20_Witness ==
    /\ last.op = "to_bytes"
    /\ last.ty = "u128"
    /\ last.val > 65536
    /\ Len(last.bytes) = 16

\* C18: region offsets cannot overflow: RestrictedMemory::new aborts when
\* end >= u64::MAX / 65536 (integer division) and only then, and for every
\* region it accepts and every offset o <= (e - s) * 65536 the inner byte
\* offset s * 65536 + o that read and write compute is at most u64::MAX.
C18_OffsetsFit ==
    /\ last.op = "new"
       => (last.result = "panic" <=> last.store.end >= U64_MAX \div WASM_PAGE_SIZE)
    /\ (/\ last.op \in {"read", "mem_write"}
        /\ last.offset <= (last.store.end - last.store.start) * WASM_PAGE_SIZE)
       => /\ last.store.end < U64_MAX \div WASM_PAGE_SIZE
          /\ last.store.start * WASM_PAGE_SIZE + last.offset <= U64_MAX

\* a byte is written at the last offset of the largest range new accepts
C18_Witness ==
    /\ last.op = "mem_write"
    /\ last.result = "Ok"
    /\ last.store.end = (U64_MAX \div WASM_PAGE_SIZE) - 1
    /\ last.store.start = last.store.end - 1
    /\ last.offset = WASM_PAGE_SIZE - 1
    /\ mem # <<>>

====
